---- MODULE Spec2Model ----
(***************************************************************************)
(* Model of pkg/reconciler/common/transformers.go: the manifest            *)
(* transformation pipeline (Transform and the transformers it runs) and    *)
(* the image-override resolution (ImagesFromEnv, formKey, DeploymentImages,*)
(* TaskImages).                                                            *)
(*                                                                         *)
(* A Go string is a sequence of one-character strings, so that             *)
(* strings.ToLower, strings.ReplaceAll, strings.Split, strings.HasPrefix   *)
(* and strings.TrimPrefix are computed character by character.             *)
(***************************************************************************)
EXTENDS Integers, Sequences, FiniteSets, TLC

VARIABLES
    pc,             \* position of the running operation
    images,         \* map[string]string: the override table
    args,           \* container.Args of the container being rewritten
    args0,          \* container.Args as passed to replaceContainersArgsImage
    a,              \* loop index of replaceContainersArgsImage (1-based)
    environ,        \* os.Environ()
    prefix,         \* the prefix argument of ImagesFromEnv
    e,              \* loop index of ImagesFromEnv (1-based)
    manifest,       \* *manifest: the caller's manifest
    manifest0,      \* the caller's manifest when Transform was called
    m,              \* the copy manifest.Transform works on
    di,             \* index of the document being transformed
    ti,             \* index of the transformer being applied
    tfs,            \* the transformer list of the running Transform call
    extra,          \* the extra transformers the caller passes
    err,            \* the error Transform returns ("" is nil)
    installFailed,  \* instance.GetStatus() carries MarkInstallFailed
    run,            \* number of Transform calls started
    result1,        \* the manifest after the first successful Transform
    last            \* the latest transformer application: before, after, outcome

vars == <<pc, images, args, args0, a, environ, prefix, e, manifest, manifest0,
          m, di, ti, tfs, extra, err, installFailed, run, result1, last>>

argVars == <<args, args0, a>>
envVars == <<environ, prefix, e>>
pipeVars == <<manifest, manifest0, m, di, ti, tfs, extra, err, installFailed,
              run, result1, last>>

-----------------------------------------------------------------------------
(* Bounds of the model.                                                    *)

MaxArgs == 2
MaxTable == 2
MaxEnv == 2
MaxDocs == 2
MaxRuns == 2
MaxContainers == 2
MaxSteps == 3
MaxParams == 2

-----------------------------------------------------------------------------
(* Strings.                                                                *)

UpperCase == <<"A","B","C","D","E","F","G","H","I","J","K","L","M",
               "N","O","P","Q","R","S","T","U","V","W","X","Y","Z">>
LowerCase == <<"a","b","c","d","e","f","g","h","i","j","k","l","m",
               "n","o","p","q","r","s","t","u","v","w","x","y","z">>

ToLowerChar(c) ==
    IF \E i \in DOMAIN UpperCase : UpperCase[i] = c
    THEN LowerCase[CHOOSE i \in DOMAIN UpperCase : UpperCase[i] = c]
    ELSE c

\* strings.ToLower
ToLower(s) == [i \in 1..Len(s) |-> ToLowerChar(s[i])]

\* strings.ReplaceAll(s, old, new) for one-character old and new
ReplaceAll(s, old, new) == [i \in 1..Len(s) |-> IF s[i] = old THEN new ELSE s[i]]

\* strings.HasPrefix
HasPrefix(s, p) == Len(s) >= Len(p) /\ SubSeq(s, 1, Len(p)) = p

\* strings.TrimPrefix
TrimPrefix(s, p) == IF HasPrefix(s, p) THEN SubSeq(s, Len(p) + 1, Len(s)) ELSE s

\* strings.Split(s, sep) for a one-character sep: one more part than s has seps
RECURSIVE Split(_, _)
Split(s, sep) ==
    IF \A i \in 1..Len(s) : s[i] # sep
    THEN <<s>>
    ELSE LET i == CHOOSE j \in 1..Len(s) : s[j] = sep /\ \A k \in 1..(j - 1) : s[k] # sep
         IN <<SubSeq(s, 1, i - 1)>> \o Split(SubSeq(s, i + 1, Len(s)), sep)

ArgPrefix == <<"a","r","g","_">>
ParamPrefix == <<"p","a","r","a","m","_">>

-----------------------------------------------------------------------------
(* Key normalisation and argument rewriting.                               *)

\* formKey with the lower-casing left out
formKeyNoLower(pfx, arg) ==
    ReplaceAll(IF pfx # <<>> THEN pfx \o arg ELSE arg, "-", "_")

formKey(pfx, arg) ==
    LET argument == ToLower(arg)
    IN ReplaceAll(IF pfx # <<>> THEN pfx \o argument ELSE argument, "-", "_")

splitsByEqual(arg) ==
    LET values == Split(arg, "=")
    IN [values |-> values, hasArg |-> Len(values) = 2]

\* One iteration of the loop of replaceContainersArgsImage at index i: the
\* argument list after it, or a run-time panic (index out of range).

\* the bare-flag branch writing the flag's own element instead of the next
ArgStepOwnIndex(as, i, imgs) ==
    LET arg == as[i]
        sp == splitsByEqual(arg)
    IN IF sp.hasArg
       THEN LET argument == formKey(ArgPrefix, sp.values[1])
            IN [args |-> IF argument \in DOMAIN imgs
                         THEN [as EXCEPT ![i] = sp.values[1] \o <<"=">> \o imgs[argument]]
                         ELSE as,
                panic |-> FALSE]
       ELSE LET argument == formKey(ArgPrefix, arg)
            IN IF argument \in DOMAIN imgs
               THEN [args |-> [as EXCEPT ![i] = imgs[argument]], panic |-> FALSE]
               ELSE [args |-> as, panic |-> FALSE]

ArgStep(as, i, imgs) ==
    LET arg == as[i]
        sp == splitsByEqual(arg)
    IN IF sp.hasArg
       THEN LET argument == formKey(ArgPrefix, sp.values[1])
            IN [args |-> IF argument \in DOMAIN imgs
                         THEN [as EXCEPT ![i] = sp.values[1] \o <<"=">> \o imgs[argument]]
                         ELSE as,
                panic |-> FALSE]
       ELSE LET argument == formKey(ArgPrefix, arg)
            IN IF argument \in DOMAIN imgs
               THEN IF i + 1 <= Len(as)
                    THEN [args |-> [as EXCEPT ![i + 1] = imgs[argument]], panic |-> FALSE]
                    ELSE [args |-> as, panic |-> TRUE]
               ELSE [args |-> as, panic |-> FALSE]

\* replaceContainersArgsImage: the whole loop, from index i on
RECURSIVE replaceContainersArgsImage(_, _, _)
replaceContainersArgsImage(as, i, imgs) ==
    IF i > Len(as)
    THEN [args |-> as, panic |-> FALSE]
    ELSE LET r == ArgStep(as, i, imgs)
         IN IF r.panic THEN r ELSE replaceContainersArgsImage(r.args, i + 1, imgs)

-----------------------------------------------------------------------------
(* Inputs of the argument-rewriting loop.                                  *)

Replicas == <<"-","-","r","e","p","l","i","c","a","s">>
V1 == <<"v","1">>
V2 == <<"v","2">>
\* the table {"arg_replicas": "v2"}
ReplicasTable == [k \in {<<"a","r","g","_","r","e","p","l","i","c","a","s">>} |-> V2]
\* the table {"arg___replicas": "v2"}
DashedReplicasTable ==
    [k \in {<<"a","r","g","_","_","_","r","e","p","l","i","c","a","s">>} |-> V2]

ArgStrs == { <<"a">>, <<"A","-">>, <<"x">>,
             <<"a","=","x">>, <<"A","-","=","x">>, <<"a","=","x","=","x">> }
ArgKeys == { <<"a","r","g","_","a">>, <<"a","r","g","_","a","_">>,
             <<"a","r","g","_","x">>, <<"a","r","g","_","A","-">> }
ArgVals == { <<"x">>, <<"a">>, <<"y">> }

SeqsUpTo(S, n) == UNION { [1..k -> S] : k \in 0..n }

Tables(keys, vals, n) ==
    UNION { [d -> vals] : d \in { d \in SUBSET keys : Cardinality(d) <= n } }

ArgInputs ==
    { [args |-> as, images |-> t] :
        as \in SeqsUpTo(ArgStrs, MaxArgs), t \in Tables(ArgKeys, ArgVals, MaxTable) }
    \cup { [args |-> as, images |-> t] :
              as \in { <<Replicas \o <<"=">> \o V1>>, <<Replicas, V1>>, <<Replicas>> },
              t \in { ReplicasTable, DashedReplicasTable } }

-----------------------------------------------------------------------------
(* The loop of replaceContainersArgsImage, one iteration per step.         *)

NoPipe ==
    /\ manifest = <<>> /\ manifest0 = <<>> /\ m = <<>> /\ di = 0 /\ ti = 0
    /\ tfs = <<>> /\ extra = <<>> /\ err = "" /\ installFailed = FALSE
    /\ run = 0 /\ result1 = <<>> /\ last = <<>>

InitArgs ==
    /\ \E in \in ArgInputs :
        /\ args = in.args
        /\ args0 = in.args
        /\ images = in.images
    /\ a = 1
    /\ pc = "loop"
    /\ environ = <<>> /\ prefix = <<>> /\ e = 0
    /\ NoPipe

\* an iteration that completes: lines 168-181
ArgIter ==
    /\ pc = "loop"
    /\ a <= Len(args)
    /\ ~ArgStep(args, a, images).panic
    /\ args' = ArgStep(args, a, images).args
    /\ a' = a + 1
    /\ UNCHANGED <<pc, images, args0, envVars, pipeVars>>

\* line 179 with a+1 past the end of the slice: the run-time panics
ArgIndexOutOfRange ==
    /\ pc = "loop"
    /\ a <= Len(args)
    /\ ArgStep(args, a, images).panic
    /\ pc' = "panic"
    /\ UNCHANGED <<images, argVars, envVars, pipeVars>>

\* the range loop is exhausted: the function returns
ArgsReturn ==
    /\ pc = "loop"
    /\ a > Len(args)
    /\ pc' = "done"
    /\ UNCHANGED <<images, argVars, envVars, pipeVars>>

NextArgs == ArgIter \/ ArgIndexOutOfRange \/ ArgsReturn

SpecArgs == InitArgs /\ [][NextArgs]_vars

-----------------------------------------------------------------------------
(* What the specification says of one argument, stated without the code's   *)
(* helpers.                                                                *)

CountChar(s, c) == Cardinality({ i \in 1..Len(s) : s[i] = c })

FirstIndex(s, c) == CHOOSE i \in 1..Len(s) : s[i] = c /\ \A k \in 1..(i - 1) : s[k] # c

\* normalize(prefix, rawName): rawName lower-cased, '-' replaced by '_', after prefix
Normalize(pfx, raw) ==
    pfx \o [i \in 1..Len(raw) |-> IF raw[i] = "-" THEN "_" ELSE ToLowerChar(raw[i])]

FlagName(arg) == SubSeq(arg, 1, FirstIndex(arg, "=") - 1)

C2_Step ==
    (pc = "loop" /\ a <= Len(args) /\ CountChar(args[a], "=") = 1)
        => LET flagName == FlagName(args[a])
               key == Normalize(ArgPrefix, flagName)
           IN args' = [args EXCEPT ![a] = IF key \in DOMAIN images
                                           THEN flagName \o <<"=">> \o images[key]
                                           ELSE @]

\* the example as the specification gives it: the table {"arg_replicas": "v2"}
C2_ExampleAsStated ==
    (pc = "done" /\ images = ReplicasTable /\ args0 = <<Replicas \o <<"=">> \o V1>>)
        => args = <<Replicas \o <<"=">> \o V2>>

\* C2 as stated: the rule for flagName=flagValue, and under the table
\* {"arg_replicas": "v2"} the list ["--replicas=v1"] ends as ["--replicas=v2"].
C2_AsStated == [][C2_Step]_vars /\ []C2_ExampleAsStated

\* normalize("arg_", "--replicas") is "arg___replicas": under that key the
\* value is replaced, under "arg_replicas" the list stays as it is
C2_Example ==
    (pc = "done" /\ args0 = <<Replicas \o <<"=">> \o V1>>)
        => /\ images = DashedReplicasTable => args = <<Replicas \o <<"=">> \o V2>>
           /\ images = ReplicasTable => args = args0

\* C2: an argument flagName=flagValue (exactly one '=') is looked up under
\* normalize("arg_", flagName); when the key is in the table the argument
\* becomes flagName=<override>, the flag name as it was, and otherwise the
\* argument list is left as it is. With table {"arg___replicas": "v2"} (the
\* key of "--replicas") the list ["--replicas=v1"] ends as ["--replicas=v2"];
\* with table {"arg_replicas": "v2"} it stays ["--replicas=v1"].
C2_FlagValueRewritten == [][C2_Step]_vars /\ []C2_Example

\* an upper-case, hyphenated flag name was rewritten under its normalized key
C2_Witness ==
    /\ a > 1
    /\ args0[1] = <<"A","-","=","x">>
    /\ <<"a","r","g","_","a","_">> \in DOMAIN images
    /\ args[1] = <<"A","-","=">> \o images[<<"a","r","g","_","a","_">>]
    /\ args[1] # args0[1]

C3_Step ==
    (/\ pc = "loop"
     /\ a < Len(args)
     /\ CountChar(args[a], "=") # 1
     /\ Normalize(ArgPrefix, args[a]) \in DOMAIN images)
        => args' = [args EXCEPT ![a + 1] = images[Normalize(ArgPrefix, args[a])]]

\* the example as the specification gives it: the table {"arg_replicas": "v2"}
C3_ExampleAsStated ==
    (pc = "done" /\ images = ReplicasTable /\ args0 = <<Replicas, V1>>)
        => args = <<Replicas, V2>>

\* C3 as stated: the rule for a bare flag, and under the table
\* {"arg_replicas": "v2"} the list ["--replicas", "v1"] ends as
\* ["--replicas", "v2"].
C3_AsStated == [][C3_Step]_vars /\ []C3_ExampleAsStated

C3_Example ==
    (pc = "done" /\ args0 = <<Replicas, V1>>)
        => /\ images = DashedReplicasTable => args = <<Replicas, V2>>
           /\ images = ReplicasTable => args = args0

\* C3: a bare flag (not exactly two parts on '=') that is followed by another
\* argument and whose key normalize("arg_", argument) is in the table has the
\* element at the next index set to the override; the flag's own element and
\* every other element stay as they are. With table {"arg___replicas": "v2"}
\* the list ["--replicas", "v1"] ends as ["--replicas", "v2"]; with table
\* {"arg_replicas": "v2"} it stays ["--replicas", "v1"].
C3_NextElementOverwritten == [][C3_Step]_vars /\ []C3_Example

\* a bare flag with upper case and a hyphen overwrote the element after it
C3_Witness ==
    /\ a = 2
    /\ Len(args) >= 2
    /\ args0[1] = <<"A","-">>
    /\ <<"a","r","g","_","a","_">> \in DOMAIN images
    /\ args[2] = images[<<"a","r","g","_","a","_">>]
    /\ args[2] # args0[2]
    /\ args[1] = args0[1]

\* C4: replaceContainersArgsImage never indexes past the end of the argument
\* list: a bare flag in the table that is the last element is skipped, the
\* loop completes and the list keeps its length.
C4_NeverPastTheEnd == pc # "panic" /\ Len(args) = Len(args0)

-----------------------------------------------------------------------------
(* ImagesFromEnv, one entry of os.Environ() per step.                      *)

EmptyTable == [k \in {} |-> <<>>]

Put(t, k, v) == [x \in DOMAIN t \cup {k} |-> IF x = k THEN v ELSE t[x]]

EnvStrs == { <<"P","_","a","=","x">>, <<"P","_","a","=","y">>,
             <<"P","_","B","-","=","x","=","y">>, <<"Q","=","x">>,
             <<"P","_","a">> }
EnvPrefixes == { <<"P","_">>, <<>> }

InitEnv ==
    /\ environ \in SeqsUpTo(EnvStrs, MaxEnv)
    /\ prefix \in EnvPrefixes
    /\ e = 1
    /\ images = EmptyTable
    /\ pc = "env"
    /\ args = <<>> /\ args0 = <<>> /\ a = 0
    /\ NoPipe

\* lines 105-107: an entry that does not start with prefix is passed over
EnvSkip ==
    /\ pc = "env"
    /\ e <= Len(environ)
    /\ ~HasPrefix(environ[e], prefix)
    /\ e' = e + 1
    /\ UNCHANGED <<pc, images, environ, prefix, argVars, pipeVars>>

\* lines 109-112
EnvInsert ==
    /\ pc = "env"
    /\ e <= Len(environ)
    /\ HasPrefix(environ[e], prefix)
    /\ LET keyValue == Split(environ[e], "=")
       IN /\ Len(keyValue) >= 2
          /\ images' = Put(images, TrimPrefix(keyValue[1], prefix), keyValue[2])
    /\ e' = e + 1
    /\ UNCHANGED <<pc, environ, prefix, argVars, pipeVars>>

\* line 111 on an entry without '=': keyValue[1] is out of range
EnvIndexOutOfRange ==
    /\ pc = "env"
    /\ e <= Len(environ)
    /\ HasPrefix(environ[e], prefix)
    /\ Len(Split(environ[e], "=")) < 2
    /\ pc' = "panic"
    /\ UNCHANGED <<images, envVars, argVars, pipeVars>>

\* line 115
EnvReturn ==
    /\ pc = "env"
    /\ e > Len(environ)
    /\ pc' = "done"
    /\ UNCHANGED <<images, envVars, argVars, pipeVars>>

NextEnv == EnvSkip \/ EnvInsert \/ EnvIndexOutOfRange \/ EnvReturn

SpecEnv == InitEnv /\ [][NextEnv]_vars

\* the key and the value of a KEY=VALUE entry: before and after the first '='
EntryKey(s) == SubSeq(s, 1, FirstIndex(s, "=") - 1)
EntryValue(s) == SubSeq(s, FirstIndex(s, "=") + 1, Len(s))

Contributes(s, p) == CountChar(s, "=") >= 1 /\ HasPrefix(EntryKey(s), p)

\* C8: ImagesFromEnv(prefix) returns the table in which an entry contributes
\* iff its key (before the first '=') starts with prefix, stored under the key
\* with the prefix stripped and with the value as given: everything after the
\* first '=', further '=' included. Of two entries with one key the later one
\* is the one stored.
C8_ValueAsGiven ==
    (pc = "done" /\ \A i \in 1..Len(environ) : CountChar(environ[i], "=") >= 1)
        => /\ DOMAIN images =
                { SubSeq(EntryKey(environ[i]), Len(prefix) + 1, Len(EntryKey(environ[i]))) :
                    i \in { j \in 1..Len(environ) : Contributes(environ[j], prefix) } }
           /\ \A i \in 1..Len(environ) :
                (/\ Contributes(environ[i], prefix)
                 /\ \A j \in (i + 1)..Len(environ) :
                        ~(Contributes(environ[j], prefix)
                          /\ EntryKey(environ[j]) = EntryKey(environ[i])))
                    => images[SubSeq(EntryKey(environ[i]), Len(prefix) + 1,
                                     Len(EntryKey(environ[i])))] = EntryValue(environ[i])

-----------------------------------------------------------------------------
(* Resource documents. A document is the part of an unstructured object    *)
(* the transformers read or write:                                         *)
(*   kind, annotations, namespace  metadata                                *)
(*   owner       metadata.ownerReferences names the instance               *)
(*   service     spec.conversion.webhookClientConfig.service: "absent",    *)
(*               "pathNotMap" (a field on the path is no mapping),         *)
(*               "notMap" (present, no mapping) or "map"                   *)
(*   decodes     the object converts to an appsv1.Deployment               *)
(*   converted   the content is the output of ToUnstructured               *)
(*   containers  spec.template.spec.containers                             *)
(*   steps, params  spec.steps, spec.params: "absent", "notSlice" or       *)
(*               "slice" with its items (mappings)                         *)

AnnotationPreserveNS == "operator.tekton.dev/preserve-namespace"
TargetNamespace == "tekton-pipelines"

KindConfigMap == <<"C","o","n","f","i","g","M","a","p">>
KindCRD == <<"C","u","s","t","o","m","R","e","s","o","u","r","c","e","D","e","f","i","n","i","t","i","o","n">>
KindCRDLower == <<"c","u","s","t","o","m","r","e","s","o","u","r","c","e","d","e","f","i","n","i","t","i","o","n">>
KindDeployment == <<"D","e","p","l","o","y","m","e","n","t">>
KindClusterTask == <<"C","l","u","s","t","e","r","T","a","s","k">>

NoAnnotations == [k \in {} |-> ""]
Preserve(v) == [k \in {AnnotationPreserveNS} |-> v]

NoService == [state |-> "absent", hasNamespace |-> FALSE, namespace |-> ""]
Service(st, has) == [state |-> st, hasNamespace |-> has,
                     namespace |-> IF has THEN "default" ELSE ""]
NoList == [state |-> "absent", items |-> <<>>]
NotSlice == [state |-> "notSlice", items |-> <<>>]
Slice(items) == [state |-> "slice", items |-> items]

Doc(kind) ==
    [kind |-> kind, annotations |-> NoAnnotations, namespace |-> "", owner |-> FALSE,
     service |-> NoService, decodes |-> TRUE, converted |-> FALSE,
     containers |-> <<>>, steps |-> NoList, params |-> NoList]

Old == <<"o","l","d">>
New == <<"n","e","w">>

Container(name, as) == [name |-> name, image |-> Old, args |-> as]
Step(name) == [named |-> TRUE, name |-> name, image |-> Old]
UnnamedStep == [named |-> FALSE, name |-> <<>>, image |-> Old]
Param(name) == [named |-> TRUE, name |-> name, default |-> Old]
UnnamedParam == [named |-> FALSE, name |-> <<>>, default |-> Old]

-----------------------------------------------------------------------------
(* The transformers. Each returns the document after it and its outcome:   *)
(* "ok" (nil), "err" (an error value) or "panic" (the run-time panics).    *)

Ok(u) == [doc |-> u, out |-> "ok"]
Err(u) == [doc |-> u, out |-> "err"]
Panic(u) == [doc |-> u, out |-> "panic"]

\* mf.InjectOwner(obj)
InjectOwner(u) == Ok([u EXCEPT !.owner = TRUE])

\* mf.InjectNamespace(targetNamespace)
InjectNamespace(u, ns) == Ok([u EXCEPT !.namespace = ns])

\* the annotation suppressing the rewrite whatever its value
injectNamespaceAnyValue(u, ns) ==
    IF AnnotationPreserveNS \in DOMAIN u.annotations
    THEN Ok(u)
    ELSE InjectNamespace(u, ns)

injectNamespaceConditional(u, ns) ==
    LET annotations == u.annotations
        ok == AnnotationPreserveNS \in DOMAIN annotations
    IN IF ok /\ annotations[AnnotationPreserveNS] = "true"
       THEN Ok(u)
       ELSE InjectNamespace(u, ns)

injectNamespaceCRDWebhookClientConfig(u, ns) ==
    LET kind == ToLower(u.kind)
    IN IF kind # KindCRDLower
       THEN Ok(u)
       ELSE CASE u.service.state = "absent" -> Ok(u)
              [] u.service.state = "pathNotMap" -> Err(u)
              [] u.service.state = "notMap" -> Panic(u)
              [] OTHER ->
                   IF u.service.hasNamespace
                   THEN Ok([u EXCEPT !.service.namespace = ns])
                   ELSE Ok(u)

\* replaceContainerImages, from container i on
RECURSIVE replaceContainerImages(_, _, _)
replaceContainerImages(containers, i, imgs) ==
    IF i > Len(containers)
    THEN [containers |-> containers, panic |-> FALSE]
    ELSE LET container == containers[i]
             name == formKey(<<>>, container.name)
             image == IF name \in DOMAIN imgs THEN imgs[name] ELSE container.image
             r == replaceContainersArgsImage(container.args, 1, imgs)
         IN IF r.panic
            THEN [containers |-> containers, panic |-> TRUE]
            ELSE replaceContainerImages(
                     [containers EXCEPT ![i] = [name |-> container.name,
                                                image |-> image,
                                                args |-> r.args]],
                     i + 1, imgs)

DeploymentImages(u, imgs) ==
    IF u.kind # KindDeployment
    THEN Ok(u)
    ELSE IF ~u.decodes
         THEN Err(u)
         ELSE LET r == replaceContainerImages(u.containers, 1, imgs)
              IN IF r.panic
                 THEN Panic(u)
                 ELSE Ok([u EXCEPT !.containers = r.containers, !.converted = TRUE])

\* the loop left at the first step without a name
replaceStepsImagesBreak(steps, override) ==
    [i \in 1..Len(steps) |->
        LET step == steps[i]
            name == formKey(<<>>, step.name)
        IN IF \E j \in 1..i : ~steps[j].named
           THEN step
           ELSE IF name \notin DOMAIN override \/ override[name] = <<>>
                THEN step
                ELSE [step EXCEPT !.image = override[name]]]

replaceStepsImages(steps, override) ==
    [i \in 1..Len(steps) |->
        LET step == steps[i]
            name == formKey(<<>>, step.name)
        IN IF ~step.named
           THEN step
           ELSE IF name \notin DOMAIN override \/ override[name] = <<>>
                THEN step
                ELSE [step EXCEPT !.image = override[name]]]

replaceParamsImage(params, override) ==
    [i \in 1..Len(params) |->
        LET param == params[i]
            name == formKey(ParamPrefix, param.name)
        IN IF ~param.named
           THEN param
           ELSE IF name \notin DOMAIN override \/ override[name] = <<>>
                THEN param
                ELSE [param EXCEPT !.default = override[name]]]

TaskImages(u, imgs) ==
    IF u.kind # KindClusterTask
    THEN Ok(u)
    ELSE CASE u.steps.state = "notSlice" -> Err(u)
           [] u.steps.state = "absent" -> Ok(u)
           [] OTHER ->
                LET u1 == [u EXCEPT !.steps.items = replaceStepsImages(@, imgs)]
                IN CASE u1.params.state = "notSlice" -> Err(u1)
                     [] u1.params.state = "absent" -> Ok(u1)
                     [] OTHER ->
                          Ok([u1 EXCEPT !.params.items = replaceParamsImage(@, imgs)])

\* transformers(ctx, obj): the transformers common to all components
transformers ==
    <<"InjectOwner", "injectNamespaceConditional", "injectNamespaceCRDWebhookClientConfig">>

-----------------------------------------------------------------------------
(* Inputs of Transform.                                                    *)

\* keys as ImagesFromEnv builds them (no '='), lower-cased
Table1 ==
    (<<"a","_">> :> New) @@ (<<"b">> :> <<>>) @@ (<<"p","a","r","a","m","_","p","_">> :> New)
    @@ (<<"a","r","g","_","a">> :> <<"y">>) @@ (<<"a","r","g","_","y">> :> <<"z">>) @@ (<<"a","r","g","_","a","_">> :> New)

\* a table a caller writes by hand: a key and a value containing '='
Table2 == (<<"a","r","g","_","a">> :> <<"=">>) @@ (<<"a","r","g","_","a","=","=">> :> <<"z">>)

\* a value containing '=' under a key without one
Table3 == (<<"a","r","g","_","a">> :> <<"u","=","v">>) @@ (<<"a","_">> :> New)

PipeTables == { EmptyTable, Table1, Table2, Table3 }

Extras == { <<>>, <<"DeploymentImages", "TaskImages">> }

Annotations == { NoAnnotations, Preserve("true"), Preserve("True"), Preserve("false") }

ConfigMaps ==
    { [Doc(KindConfigMap) EXCEPT !.annotations = an, !.namespace = ns] :
        an \in Annotations, ns \in {"", "default"} }

Services == { NoService, Service("pathNotMap", FALSE), Service("notMap", FALSE),
              Service("map", TRUE), Service("map", FALSE) }

CRDs ==
    { [Doc(k) EXCEPT !.service = sv, !.annotations = an] :
        k \in {KindCRD, KindCRDLower}, sv \in Services,
        an \in {NoAnnotations, Preserve("true")} }

DocArgs == { <<>>, <<<<"a">>>>, <<<<"a">>, <<"q">>, <<"q">>>>, <<<<"a","=","x">>, <<"q">>>>, <<<<"A","-","=","x">>>> }

Containers == { Container(<<"A","-">>, as) : as \in DocArgs }

Deployments ==
    { [Doc(KindDeployment) EXCEPT !.containers = cs] :
        cs \in SeqsUpTo(Containers, MaxContainers) }
    \cup { [Doc(KindDeployment) EXCEPT !.decodes = FALSE] }

StepLists ==
    { NoList, NotSlice }
    \cup { Slice(x) : x \in SeqsUpTo({Step(<<"A","-">>), Step(<<"b">>), UnnamedStep}, MaxSteps) }

ParamLists ==
    { NoList, NotSlice }
    \cup { Slice(x) : x \in SeqsUpTo({Param(<<"P","-">>), UnnamedParam}, MaxParams) }

ClusterTasks ==
    { [Doc(KindClusterTask) EXCEPT !.steps = st, !.params = pa] :
        st \in StepLists, pa \in {NoList, NotSlice, Slice(<<Param(<<"P","-">>)>>)} }
    \cup { [Doc(KindClusterTask) EXCEPT !.steps = st, !.params = pa] :
             st \in {NoList, NotSlice, Slice(<<Step(<<"A","-">>)>>)}, pa \in ParamLists }

Docs == ConfigMaps \cup CRDs \cup Deployments \cup ClusterTasks

\* the documents of the manifests of more than one document
PipeDocs ==
    { Doc(KindConfigMap),
      [Doc(KindConfigMap) EXCEPT !.annotations = Preserve("true"), !.namespace = "default"],
      [Doc(KindCRD) EXCEPT !.service = Service("map", TRUE)],
      [Doc(KindCRD) EXCEPT !.service = Service("pathNotMap", FALSE)],
      [Doc(KindDeployment) EXCEPT !.decodes = FALSE],
      [Doc(KindDeployment) EXCEPT !.containers = <<Container(<<"A","-">>, <<<<"a","=","x">>, <<"q">>>>)>>],
      [Doc(KindClusterTask) EXCEPT !.steps = NotSlice],
      [Doc(KindClusterTask) EXCEPT !.steps = Slice(<<Step(<<"A","-">>)>>),
                                   !.params = Slice(<<Param(<<"P","-">>)>>)] }

Manifests == SeqsUpTo(PipeDocs, MaxDocs) \cup { <<d>> : d \in Docs }

NoLast == [t |-> "", before |-> Doc(<<>>), after |-> Doc(<<>>), out |-> ""]

-----------------------------------------------------------------------------
(* Transform: manifest.Transform applies the transformer list to a copy of *)
(* the manifest, document by document; Transform then fails or commits.    *)

Init ==
    /\ manifest \in Manifests
    /\ images \in PipeTables
    /\ extra \in Extras
    /\ manifest0 = manifest
    /\ pc = "idle"
    /\ m = <<>> /\ di = 0 /\ ti = 0 /\ tfs = <<>>
    /\ err = "" /\ installFailed = FALSE /\ run = 0 /\ result1 = <<>>
    /\ last = NoLast
    /\ args = <<>> /\ args0 = <<>> /\ a = 0
    /\ environ = <<>> /\ prefix = <<>> /\ e = 0

\* lines 55-62: the call, up to the copy manifest.Transform makes
TransformCall ==
    /\ pc \in {"idle", "returned"}
    /\ run < MaxRuns
    /\ run' = run + 1
    /\ tfs' = transformers \o extra
    /\ manifest0' = manifest
    /\ m' = manifest
    /\ di' = 1
    /\ ti' = 1
    /\ err' = ""
    /\ pc' = "transforming"
    /\ UNCHANGED <<images, argVars, envVars, manifest, extra, installFailed, result1, last>>

\* manifest.Transform is at transformer name of the document at di
Applying(name) ==
    /\ pc = "transforming"
    /\ di <= Len(m)
    /\ tfs[ti] = name

\* what manifest.Transform does with the result r of transformer name
Applied(name, r) ==
    /\ last' = [t |-> name, before |-> m[di], after |-> r.doc, out |-> r.out]
    /\ CASE r.out = "ok" ->
              /\ m' = [m EXCEPT ![di] = r.doc]
              /\ IF ti < Len(tfs)
                 THEN ti' = ti + 1 /\ di' = di
                 ELSE ti' = 1 /\ di' = di + 1
              /\ UNCHANGED <<pc, err>>
         [] r.out = "err" ->
              /\ pc' = "failed"
              /\ err' = name
              /\ m' = <<>>
              /\ UNCHANGED <<di, ti>>
         [] OTHER ->
              /\ pc' = "panic"
              /\ UNCHANGED <<m, di, ti, err>>
    /\ UNCHANGED <<images, argVars, envVars, manifest, manifest0, tfs, extra,
                   installFailed, run, result1>>

ApplyInjectOwner ==
    /\ Applying("InjectOwner")
    /\ Applied("InjectOwner", InjectOwner(m[di]))

ApplyInjectNamespaceConditional ==
    /\ Applying("injectNamespaceConditional")
    /\ Applied("injectNamespaceConditional",
               injectNamespaceConditional(m[di], TargetNamespace))

ApplyInjectNamespaceCRDWebhookClientConfig ==
    /\ Applying("injectNamespaceCRDWebhookClientConfig")
    /\ Applied("injectNamespaceCRDWebhookClientConfig",
               injectNamespaceCRDWebhookClientConfig(m[di], TargetNamespace))

ApplyDeploymentImages ==
    /\ Applying("DeploymentImages")
    /\ Applied("DeploymentImages", DeploymentImages(m[di], images))

ApplyTaskImages ==
    /\ Applying("TaskImages")
    /\ Applied("TaskImages", TaskImages(m[di], images))

\* the error branch with the assignment of line 67 made on it too
TransformFailAssigns ==
    /\ pc = "failed"
    /\ installFailed' = TRUE
    /\ manifest' = m
    /\ pc' = "returned"
    /\ UNCHANGED <<images, argVars, envVars, manifest0, m, di, ti, tfs, extra, err,
                   run, result1, last>>

\* lines 63-66
TransformFail ==
    /\ pc = "failed"
    /\ installFailed' = TRUE
    /\ pc' = "returned"
    /\ UNCHANGED <<images, argVars, envVars, manifest, manifest0, m, di, ti, tfs, extra,
                   err, run, result1, last>>

\* lines 67-68
TransformCommit ==
    /\ pc = "transforming"
    /\ di > Len(m)
    /\ manifest' = m
    /\ result1' = IF run = 1 THEN m ELSE result1
    /\ pc' = "returned"
    /\ UNCHANGED <<images, argVars, envVars, manifest0, m, di, ti, tfs, extra, err,
                   installFailed, run, last>>

Next ==
    \/ TransformCall
    \/ ApplyInjectOwner
    \/ ApplyInjectNamespaceConditional
    \/ ApplyInjectNamespaceCRDWebhookClientConfig
    \/ ApplyDeploymentImages
    \/ ApplyTaskImages
    \/ TransformFail
    \/ TransformCommit

Spec == Init /\ [][Next]_vars

-----------------------------------------------------------------------------
(* Properties of Transform and of the transformers.                        *)

ByName(name, u) ==
    CASE name = "InjectOwner" -> InjectOwner(u)
      [] name = "injectNamespaceConditional" -> injectNamespaceConditional(u, TargetNamespace)
      [] name = "injectNamespaceCRDWebhookClientConfig" ->
            injectNamespaceCRDWebhookClientConfig(u, TargetNamespace)
      [] name = "DeploymentImages" -> DeploymentImages(u, images)
      [] OTHER -> TaskImages(u, images)

\* the transformers ts[i], ts[i+1], ... applied to u in order, up to the first
\* one that does not succeed
RECURSIVE Chain(_, _, _)
Chain(u, ts, i) ==
    IF i > Len(ts)
    THEN Ok(u)
    ELSE LET r == ByName(ts[i], u)
         IN IF r.out # "ok" THEN r ELSE Chain(r.doc, ts, i + 1)

\* C1: Transform is all-or-nothing for the caller's manifest. While it runs
\* and when it fails the caller's manifest is what it was at the call; when a
\* transformer returns an error on a document, Transform returns that error
\* and marks the instance install-failed; only when every transformer
\* succeeds on every document is the manifest replaced by the transformed one.
C1_AllOrNothing ==
    /\ pc \in {"transforming", "failed", "panic"} => manifest = manifest0
    /\ (pc = "returned" /\ err # "") =>
          /\ manifest = manifest0
          /\ installFailed
          /\ last.out = "err" /\ err = last.t
          /\ \E i \in 1..Len(manifest0) : Chain(manifest0[i], tfs, 1).out = "err"
    /\ (pc = "returned" /\ err = "") =>
          /\ \A i \in 1..Len(manifest0) : Chain(manifest0[i], tfs, 1).out = "ok"
          /\ manifest = [i \in 1..Len(manifest0) |-> Chain(manifest0[i], tfs, 1).doc]

\* Transform has failed on the second document after transforming the first:
\* the caller's manifest shows nothing of it
C1_Witness ==
    /\ pc = "returned"
    /\ err = "DeploymentImages"
    /\ di = 2
    /\ installFailed
    /\ Chain(manifest0[1], tfs, 1).out = "ok"
    /\ Chain(manifest0[1], tfs, 1).doc # manifest0[1]
    /\ manifest = manifest0

IsCRD(u) == ToLower(u.kind) = KindCRDLower

\* C5: on a customresourcedefinition (kind compared case-insensitively) whose
\* spec.conversion.webhookClientConfig.service is present and is no mapping,
\* the webhook-config transformer returns an error; it does not crash and it
\* does not succeed.
C5_MalformedServiceIsAnError ==
    (/\ last.t = "injectNamespaceCRDWebhookClientConfig"
     /\ IsCRD(last.before)
     /\ last.before.service.state = "notMap")
        => last.out = "err" /\ pc # "panic"

HasOverride(key) == key \in DOMAIN images /\ images[key] # <<>>

ExpectedParam(param) ==
    IF param.named /\ HasOverride(Normalize(ParamPrefix, param.name))
    THEN [param EXCEPT !.default = images[Normalize(ParamPrefix, param.name)]]
    ELSE param

ExpectedStep(step) ==
    IF step.named /\ HasOverride(Normalize(<<>>, step.name))
    THEN [step EXCEPT !.image = images[Normalize(<<>>, step.name)]]
    ELSE step

\* C6: in TaskImages the steps half and the params half are independent. On
\* a ClusterTask with spec.params and no spec.steps every param with a
\* non-empty override under normalize("param_", name) gets it as its default;
\* with spec.steps and no spec.params the steps are rewritten; the absence of
\* either list is never an error.
C6_HalvesIndependent ==
    (/\ last.t = "TaskImages"
     /\ last.before.kind = KindClusterTask
     /\ last.before.steps.state \in {"absent", "slice"}
     /\ last.before.params.state \in {"absent", "slice"})
        => /\ last.out = "ok"
           /\ last.after.params.items =
                [i \in 1..Len(last.before.params.items) |->
                    ExpectedParam(last.before.params.items[i])]
           /\ last.after.steps.items =
                [i \in 1..Len(last.before.steps.items) |->
                    ExpectedStep(last.before.steps.items[i])]

NoEqualInKeys == \A k \in DOMAIN images : CountChar(k, "=") = 0

HasPreserve(u) ==
    /\ AnnotationPreserveNS \in DOMAIN u.annotations
    /\ u.annotations[AnnotationPreserveNS] = "true"

\* C9: the conditional namespace transformer leaves a document that carries
\* the preserve-namespace annotation with the value "true" as it is and
\* succeeds; on a document without the annotation, or with another value
\* ("True", "false"), the document's namespace becomes the target namespace.
C9_PreserveNamespace ==
    last.t = "injectNamespaceConditional"
        => /\ HasPreserve(last.before) => last.out = "ok" /\ last.after = last.before
           /\ ~HasPreserve(last.before) =>
                 last.out = "ok" /\ last.after.namespace = TargetNamespace

\* an annotated document in another namespace has passed the transformer
C9_Witness ==
    /\ last.t = "injectNamespaceConditional"
    /\ HasPreserve(last.before)
    /\ last.before.namespace = "default"
    /\ last.after.namespace = "default"
    /\ m[di] = last.after

\* C10: in TaskImages on a ClusterTask with a list of steps, a step without a
\* (string) name is passed over without failing the transform or ending the
\* loop: every step, before or after it, with a non-empty override under
\* normalize("", name) gets it as its image, every other step is unchanged,
\* and the number and order of the steps are kept.
C10_UnnamedStepSkipped ==
    (/\ last.t = "TaskImages"
     /\ last.before.kind = KindClusterTask
     /\ last.before.steps.state = "slice")
        => /\ last.out # "panic"
           /\ last.out = "err" => last.before.params.state = "notSlice"
           /\ Len(last.after.steps.items) = Len(last.before.steps.items)
           /\ \A i \in 1..Len(last.before.steps.items) :
                last.after.steps.items[i] = ExpectedStep(last.before.steps.items[i])

\* a step without a name stands between two steps that got the override
C10_Witness ==
    /\ last.t = "TaskImages"
    /\ last.out = "ok"
    /\ last.before.steps.items = <<Step(<<"A","-">>), UnnamedStep, Step(<<"A","-">>)>>
    /\ last.after.steps.items =
          <<[Step(<<"A","-">>) EXCEPT !.image = New], UnnamedStep,
            [Step(<<"A","-">>) EXCEPT !.image = New]>>

====
